---- MODULE Spec2Model ----
(***************************************************************************)
(* Late-penalty calculator (CSSE_Late_Penalty.py): date parsing, the       *)
(* penalty schedule, the extension registry and the per-student result     *)
(* table, as state machines over small input pools.                        *)
(*                                                                         *)
(* Times are exact: a timestamp is a calendar record, a lateness is an     *)
(* integer number of seconds, and Hours_Late is kept in hundredths of an   *)
(* hour.  Table cells are records: a missing cell (NaN), a whitespace-only *)
(* string, a string that is no date, or a date string described by its     *)
(* layout (field order, separator, comma, time-of-day style, field values).*)
(* Identifiers are sequences of characters.                                *)
(***************************************************************************)
EXTENDS Integers, Sequences, FiniteSets, TLC

VARIABLES
    pc,                 \* position in the run
    date_str,           \* parse_datetime: the argument
    parsed,             \* parse_datetime: the returned value
    hours1, hours2,     \* calculate_late_penalty: two lateness arguments (seconds)
    has_sc,             \* calculate_late_penalty: has_special_consideration
    pen1, pen2,         \* calculate_late_penalty: the two returned values
    ext_df,             \* process_extension_file: the rows of the extension table
    ext_col,            \* process_extension_file: the table has an 'Extension' column
    special_students,   \* set of identifiers with special consideration
    special_deadlines,  \* dict identifier -> deadline, as a function
    submission_df,      \* process_data: the rows of the submission table
    name_col,           \* the submission table has a 'Last Edited by: Name' column
    deadline,           \* process_data: the global deadline
    results,            \* process_data: the result rows, in order
    raised              \* process_data ended with an exception

vars == <<pc, date_str, parsed, hours1, hours2, has_sc, pen1, pen2, ext_df, ext_col,
          special_students, special_deadlines, submission_df, name_col, deadline,
          results, raised>>

----------------------------------------------------------------------------
(* Timestamps *)

DT(y, mo, d, h, mi, s) ==
    [k |-> "dt", y |-> y, mo |-> mo, d |-> d, h |-> h, mi |-> mi, s |-> s]

\* Python None
None == [k |-> "None", y |-> 0, mo |-> 0, d |-> 0, h |-> 0, mi |-> 0, s |-> 0]

\* pandas NaT
NaT == [k |-> "NaT", y |-> 0, mo |-> 0, d |-> 0, h |-> 0, mi |-> 0, s |-> 0]

IsLeap(y) == (y % 4 = 0 /\ y % 100 # 0) \/ y % 400 = 0

DaysInMonth(y, mo) ==
    IF mo = 2 THEN (IF IsLeap(y) THEN 29 ELSE 28)
    ELSE IF mo \in {4, 6, 9, 11} THEN 30 ELSE 31

\* the day number of a proleptic Gregorian date (days since 1970-01-01)
DaysFromCivil(y, mo, d) ==
    LET yy  == IF mo <= 2 THEN y - 1 ELSE y
        era == yy \div 400
        yoe == yy - era * 400
        mp  == IF mo > 2 THEN mo - 3 ELSE mo + 9
        doy == (153 * mp + 2) \div 5 + d - 1
        doe == yoe * 365 + yoe \div 4 - yoe \div 100 + doy
    IN  era * 146097 + doe - 719468

\* seconds since the epoch of a timestamp record
Secs(t) == DaysFromCivil(t.y, t.mo, t.d) * 86400 + t.h * 3600 + t.mi * 60 + t.s

\* (a - b).total_seconds()
total_seconds(a, b) == Secs(a) - Secs(b)

----------------------------------------------------------------------------
(* Table cells holding text *)

Cell(k, lay, sep, comma, tk, f1, f2, yr, h, mi, s, pm) ==
    [k |-> k, lay |-> lay, sep |-> sep, comma |-> comma, tk |-> tk,
     f1 |-> f1, f2 |-> f2, yr |-> yr, h |-> h, mi |-> mi, s |-> s, pm |-> pm]

\* a missing cell
NaN == Cell("NaN", "", "", FALSE, "none", 0, 0, 0, 0, 0, 0, "")

\* a string of whitespace only
Blank == Cell("blank", "", "", FALSE, "none", 0, 0, 0, 0, 0, 0, "")

\* a string that is no date, such as "abc"
Junk == Cell("junk", "", "", FALSE, "none", 0, 0, 0, 0, 0, 0, "")

\* A date string.  lay "DMY4": f1 sep f2 sep yyyy; "DMY2": f1 sep f2 sep yy;
\* "YMD": yyyy sep f1 sep f2.  tk: "none", "HM", "HMS" (24-hour), "HMp", "HMSp"
\* (12-hour followed by pm = "AM"/"PM").  comma: a comma follows the date.
DateText(lay, sep, comma, tk, f1, f2, yr, h, mi, s, pm) ==
    Cell("date", lay, sep, comma, tk, f1, f2, yr, h, mi, s, pm)

----------------------------------------------------------------------------
(* parse_datetime *)

Fmt(lay, sep, comma, tk) == [lay |-> lay, sep |-> sep, comma |-> comma, tk |-> tk]

formats == <<
    Fmt("DMY", "/", FALSE, "HMSp"),
    Fmt("DMY", "/", FALSE, "HMS"),
    Fmt("DMY", "/", FALSE, "HMp"),
    Fmt("DMY", "/", FALSE, "HM"),
    Fmt("DMY", "/", FALSE, "none"),
    Fmt("DMY", "-", TRUE,  "HMS"),
    Fmt("DMY", "-", FALSE, "HMS"),
    Fmt("DMY", "-", TRUE,  "HM"),
    Fmt("DMY", "-", FALSE, "HM"),
    Fmt("DMY", "-", FALSE, "none"),
    Fmt("YMD", "-", FALSE, "HMS"),
    Fmt("YMD", "-", FALSE, "HM"),
    Fmt("YMD", "-", FALSE, "none") >>

\* hour of the day of a 12-hour clock reading
Hour12(h, pm) == IF pm = "PM" THEN (IF h = 12 THEN 12 ELSE h + 12)
                 ELSE (IF h = 12 THEN 0 ELSE h)

ValidDate(y, mo, d) == mo \in 1..12 /\ d >= 1 /\ d <= DaysInMonth(y, mo)

\* datetime.strptime(date_str, fmt): None stands for ValueError.  %Y takes four
\* digits, %d and %m one or two; %I is 1..12; the whole string must be consumed.
strptime(t, f) ==
    LET shape == /\ t.k = "date"
                 /\ t.lay = (IF f.lay = "DMY" THEN "DMY4" ELSE "YMD")
                 /\ t.sep = f.sep
                 /\ t.comma = f.comma
                 /\ t.tk = f.tk
        d  == IF f.lay = "DMY" THEN t.f1 ELSE t.f2
        mo == IF f.lay = "DMY" THEN t.f2 ELSE t.f1
        timeOk == /\ t.mi \in 0..59 /\ t.s \in 0..59
                  /\ IF f.tk \in {"HMp", "HMSp"} THEN t.h \in 1..12 ELSE t.h \in 0..23
        hh == IF f.tk \in {"HMp", "HMSp"} THEN Hour12(t.h, t.pm) ELSE t.h
    IN  IF shape /\ ValidDate(t.yr, mo, d) /\ timeOk
        THEN DT(t.yr, mo, d, hh, t.mi, IF f.tk \in {"HMS", "HMSp"} THEN t.s ELSE 0)
        ELSE None

\* a format without a time of day: the time is set to 23:59:00
try_format(t, f) ==
    LET dt == strptime(t, f)
    IN  IF dt.k = "dt" /\ f.tk = "none" THEN DT(dt.y, dt.mo, dt.d, 23, 59, 0) ELSE dt

\* pd.to_datetime(date_str).to_pydatetime() with the default dayfirst=False:
\* an empty string gives NaT; a date whose year comes last is read month-first
\* unless the first field exceeds 12; a two-digit year is in the 2000s; a date
\* without a time of day is midnight.  None stands for the exception.
to_datetime(t) ==
    IF t.k = "blank" THEN NaT
    ELSE IF t.k # "date" THEN None
    ELSE LET y  == IF t.lay = "DMY2" THEN 2000 + t.yr ELSE t.yr
             mo == IF t.lay = "YMD" THEN t.f1
                   ELSE IF t.f1 > 12 THEN t.f2 ELSE t.f1
             d  == IF t.lay = "YMD" THEN t.f2
                   ELSE IF t.f1 > 12 THEN t.f1 ELSE t.f2
             p12 == t.tk \in {"HMp", "HMSp"}
             timeOk == /\ t.mi \in 0..59 /\ t.s \in 0..59
                       /\ IF p12 THEN t.h \in 0..12 ELSE t.h \in 0..23
             hh == IF t.tk = "none" THEN 0
                   ELSE IF p12 THEN Hour12(t.h, t.pm) ELSE t.h
         IN  IF ValidDate(y, mo, d) /\ timeOk
             THEN DT(y, mo, d, hh, IF t.tk = "none" THEN 0 ELSE t.mi,
                     IF t.tk \in {"HMS", "HMSp"} THEN t.s ELSE 0)
             ELSE None

RECURSIVE try_formats(_, _)
\* the loop over formats from index i: the first format that parses wins
try_formats(t, i) ==
    IF i > Len(formats) THEN None
    ELSE LET dt == try_format(t, formats[i])
         IN  IF dt.k = "dt" THEN dt ELSE try_formats(t, i + 1)

parse_datetime(t) ==
    IF t.k = "NaN" THEN None
    ELSE LET dt == try_formats(t, 1)
         IN  IF dt.k = "dt" THEN dt ELSE to_datetime(t)

\* student_deadline.strftime('%d/%m/%Y %H:%M:%S')
strftime(t) == DateText("DMY4", "/", FALSE, "HMS", t.d, t.mo, t.y, t.h, t.mi, t.s, "")

----------------------------------------------------------------------------
(* calculate_late_penalty, with hours_late given in seconds *)

HourSecs == 3600

\* the first tier ends before 48 hours instead of at 48 hours
regular_penalty_exclusive(secs) ==
    IF secs < 48 * HourSecs THEN 0
    ELSE IF secs <= 72 * HourSecs THEN 15
    ELSE IF secs <= 96 * HourSecs THEN 20
    ELSE IF secs <= 120 * HourSecs THEN 25
    ELSE IF secs <= 144 * HourSecs THEN 30
    ELSE IF secs <= 168 * HourSecs THEN 35
    ELSE 100

\* regular students
regular_penalty(secs) ==
    IF secs <= 48 * HourSecs THEN 0
    ELSE IF secs <= 72 * HourSecs THEN 15
    ELSE IF secs <= 96 * HourSecs THEN 20
    ELSE IF secs <= 120 * HourSecs THEN 25
    ELSE IF secs <= 144 * HourSecs THEN 30
    ELSE IF secs <= 168 * HourSecs THEN 35
    ELSE 100

\* the values of the first two tiers exchanged
special_penalty_swapped(secs) ==
    IF secs <= 24 * HourSecs THEN 10
    ELSE IF secs <= 48 * HourSecs THEN 5
    ELSE IF secs <= 72 * HourSecs THEN 15
    ELSE IF secs <= 96 * HourSecs THEN 20
    ELSE IF secs <= 120 * HourSecs THEN 25
    ELSE IF secs <= 144 * HourSecs THEN 30
    ELSE IF secs <= 168 * HourSecs THEN 35
    ELSE 100

\* special consideration students (extension/UAAP)
special_penalty(secs) ==
    IF secs <= 24 * HourSecs THEN 5
    ELSE IF secs <= 48 * HourSecs THEN 10
    ELSE IF secs <= 72 * HourSecs THEN 15
    ELSE IF secs <= 96 * HourSecs THEN 20
    ELSE IF secs <= 120 * HourSecs THEN 25
    ELSE IF secs <= 144 * HourSecs THEN 30
    ELSE IF secs <= 168 * HourSecs THEN 35
    ELSE 100

calculate_late_penalty(secs, special) ==
    IF secs <= 0 THEN 0
    ELSE IF ~special THEN regular_penalty(secs)
    ELSE special_penalty(secs)

----------------------------------------------------------------------------
(* Identifiers *)

\* a missing identifier cell
IdNaN == <<"NaN">>

\* .astype(str): a missing cell becomes the string "nan"
astype_str(id) == IF id = IdNaN THEN <<"n", "a", "n">> ELSE id

RECURSIVE lstrip(_)
lstrip(s) == IF s # <<>> /\ Head(s) = " " THEN lstrip(Tail(s)) ELSE s

RECURSIVE rstrip(_)
rstrip(s) == IF s # <<>> /\ s[Len(s)] = " " THEN rstrip(SubSeq(s, 1, Len(s) - 1)) ELSE s

\* str.strip()
strip(s) == rstrip(lstrip(s))

startswith00(s) == Len(s) >= 2 /\ s[1] = "0" /\ s[2] = "0"

MinIdLen == 8

\* the filter applied to identifiers: dropped when it starts with "00" or is
\* shorter than 8 characters
filtered_out(id) == startswith00(id) \/ Len(id) < MinIdLen

\* the order of characters in strings
CharOrder == <<" ", "0", "1", "2", "3", "4", "5", "6", "7", "8", "9", "N", "a", "n">>

CharRank(c) == CHOOSE i \in 1..Len(CharOrder) : CharOrder[i] = c

RECURSIVE str_less(_, _)
\* a < b for strings
str_less(a, b) ==
    IF b = <<>> THEN FALSE
    ELSE IF a = <<>> THEN TRUE
    ELSE IF Head(a) = Head(b) THEN str_less(Tail(a), Tail(b))
    ELSE CharRank(Head(a)) < CharRank(Head(b))

RECURSIVE sorted_keys(_)
\* the keys of a group-by, ascending
sorted_keys(S) ==
    IF S = {} THEN <<>>
    ELSE LET m == CHOOSE x \in S : \A y \in S \ {x} : str_less(x, y)
         IN  <<m>> \o sorted_keys(S \ {m})

----------------------------------------------------------------------------
(* process_extension_file *)

EmptyDict == [x \in {} |-> None]

\* d[k] = v
dict_set(d, k, v) == [x \in DOMAIN d \cup {k} |-> IF x = k THEN v ELSE d[x]]

\* if parsed_date: None is false, every datetime (NaT too) is true
truthy(dt) == dt.k # "None"

ExtRow(id, ext) == [id |-> id, ext |-> ext]

\* df['Student ID'].astype(str).str.strip(), then the two filters
ext_filtered(df) ==
    LET str_ids == [i \in 1..Len(df) |-> [df[i] EXCEPT !.id = strip(astype_str(df[i].id))]]
        keep(r) == ~filtered_out(r.id)
    IN  SelectSeq(str_ids, keep)

RECURSIVE ext_deadlines(_, _, _)
\* the loop over df.iterrows() from row i
ext_deadlines(df, i, d) ==
    IF i > Len(df) THEN d
    ELSE LET row == df[i]
             parsed_date == parse_datetime(row.ext)
         IN  IF row.ext.k # "NaN" /\ truthy(parsed_date)
             THEN ext_deadlines(df, i + 1, dict_set(d, row.id, parsed_date))
             ELSE ext_deadlines(df, i + 1, d)

\* the deadlines taken from the rows before the identifier filters
process_extension_file_unfiltered(df0, has_extension_col) ==
    LET all == [i \in 1..Len(df0) |-> [df0[i] EXCEPT !.id = strip(astype_str(df0[i].id))]]
        df == ext_filtered(df0)
        students == {df[i].id : i \in 1..Len(df)}
    IN  <<students, IF has_extension_col THEN ext_deadlines(all, 1, EmptyDict) ELSE EmptyDict>>

\* returns <<special_students, special_deadlines>>
process_extension_file(df0, has_extension_col) ==
    LET df == ext_filtered(df0)
        students == {df[i].id : i \in 1..Len(df)}
    IN  <<students, IF has_extension_col THEN ext_deadlines(df, 1, EmptyDict) ELSE EmptyDict>>

----------------------------------------------------------------------------
(* process_data *)

SubRow(id, name, ts) == [id |-> id, name |-> name, ts |-> ts]

\* dropna on the two required columns, strip of the identifier, parse of the
\* timestamp, dropna on the parsed timestamp (None and NaT are both missing)
parsed_rows(df0) ==
    LET present(r) == r.id # IdNaN /\ r.ts.k # "NaN"
        df1 == SelectSeq(df0, present)
        df2 == [i \in 1..Len(df1) |->
                   [id |-> strip(astype_str(df1[i].id)), name |-> df1[i].name,
                    ts |-> df1[i].ts, Parsed_Datetime |-> parse_datetime(df1[i].ts)]]
        ok(r) == r.Parsed_Datetime.k = "dt"
    IN  SelectSeq(df2, ok)

RECURSIVE orders_of(_, _)
\* the sequences of the row numbers in S in which the timestamps never decrease
orders_of(df, S) ==
    IF S = {} THEN {<<>>}
    ELSE LET first == {i \in S : \A j \in S :
                          Secs(df[i].Parsed_Datetime) <= Secs(df[j].Parsed_Datetime)}
         IN  UNION {{<<i>> \o rest : rest \in orders_of(df, S \ {i})} : i \in first}

\* The orders sort_values('Parsed_Datetime') can leave the rows in.  The default
\* sort kind is quicksort, which is not stable: rows with equal timestamps may
\* come out in any order.
sort_orders(df) == orders_of(df, 1..Len(df))

\* GroupBy.last() of one column: the last value of the group that is not
\* missing (null is the missing value of the column)
group_last(group, col, null) ==
    LET idx == {i \in 1..Len(group) : group[i][col] # null}
    IN  IF idx = {} THEN null
        ELSE group[CHOOSE i \in idx : \A j \in idx : j <= i][col]

\* GroupBy.first() instead: the first value of the group that is not missing
group_first(group, col, null) ==
    LET idx == {i \in 1..Len(group) : group[i][col] # null}
    IN  IF idx = {} THEN null
        ELSE group[CHOOSE i \in idx : \A j \in idx : i <= j][col]

\* the earliest row of each student kept
final_submission_first(sorted, key) ==
    LET in_group(r) == r.id = key
        group == SelectSeq(sorted, in_group)
    IN  [id |-> key,
         name |-> group_first(group, "name", "NaN"),
         ts |-> group_first(group, "ts", NaN),
         Parsed_Datetime |-> group_first(group, "Parsed_Datetime", NaT)]

\* one row of final_submissions: sorted.groupby(key).last(), column by column
final_submission(sorted, key) ==
    LET in_group(r) == r.id = key
        group == SelectSeq(sorted, in_group)
    IN  [id |-> key,
         name |-> group_last(group, "name", "NaN"),
         ts |-> group_last(group, "ts", NaN),
         Parsed_Datetime |-> group_last(group, "Parsed_Datetime", NaT)]

\* round(hours_late, 2), in hundredths of an hour, of a lateness in seconds.
\* On an exact tie (secs % 36 = 18) the binary value of secs / 3600 decides in
\* Python; no lateness of the input pools is such a tie.
round2(secs) ==
    LET q == secs \div 36
        r == secs % 36
    IN  IF r < 18 THEN q
        ELSE IF r > 18 THEN q + 1
        ELSE IF q % 2 = 0 THEN q ELSE q + 1

\* the override ignored
student_deadline_global(id, ddl, deadlines) == ddl

\* the deadline of a student: the override when there is one
student_deadline(id, ddl, deadlines) ==
    IF id \in DOMAIN deadlines THEN deadlines[id] ELSE ddl

\* hours_late, in seconds: max(0, nan) is 0 when the deadline is NaT
hours_late(submission_time, ddl) ==
    IF ddl.k = "NaT" THEN 0
    ELSE IF total_seconds(submission_time, ddl) > 0
         THEN total_seconds(submission_time, ddl) ELSE 0

\* the penalty taken from the rounded Hours_Late
row_penalty_rounded(late, has_special) ==
    calculate_late_penalty(round2(late) * 36, has_special)

\* the penalty of a result row, from the unrounded hours_late
row_penalty(late, has_special) == calculate_late_penalty(late, has_special)

\* the result record of one row of final_submissions
result_row(row, ddl, students, deadlines, has_name) ==
    LET sd == student_deadline(row.id, ddl, deadlines)
        late == hours_late(row.Parsed_Datetime, sd)
        has_special == row.id \in students
    IN  [Student_ID |-> row.id,
         Student_Name |-> IF has_name THEN row.name ELSE "Unknown",
         Submission_Time |-> row.ts,
         Hours_Late |-> round2(late),
         Late_Penalty |-> row_penalty(late, has_special),
         Deadline_Used |-> strftime(sd),
         Special_Consideration |-> IF has_special THEN "Yes" ELSE "No"]

\* the identifiers of final_submissions that get a result row
reported(keys) ==
    LET keep(id) == ~filtered_out(id)
    IN  SelectSeq(keys, keep)

\* The outcomes of process_data: one per order the sort can produce.  NaT has no
\* strftime: a result row whose deadline is NaT raises ValueError.
process_data(df0, ddl, students, deadlines, has_name) ==
    LET df == parsed_rows(df0)
        ids == reported(sorted_keys({df[i].id : i \in 1..Len(df)}))
    IN  { LET sorted == [i \in 1..Len(df) |-> df[p[i]]]
              nat == \E i \in 1..Len(ids) :
                        student_deadline(ids[i], ddl, deadlines).k = "NaT"
          IN  IF nat THEN [raised |-> TRUE, results |-> <<>>]
              ELSE [raised |-> FALSE,
                    results |-> [i \in 1..Len(ids) |->
                        result_row(final_submission(sorted, ids[i]), ddl,
                                   students, deadlines, has_name)]]
          : p \in sort_orders(df) }

----------------------------------------------------------------------------
(* Input pools *)

\* seconds on either side of a tier boundary that are tried
MaxSlack == 1

\* rows of a submission table
MaxRows == 3

\* rows of an extension table
MaxExt == 2

TierHours == {0, 24, 48, 72, 96, 120, 144, 168}

HoursPool ==
    {h * HourSecs + e : h \in TierHours, e \in (0 - MaxSlack)..MaxSlack}
        \cup {0 - HourSecs, 12 * HourSecs, 200 * HourSecs}

DayMonthPool == {4, 5, 13, 31}

ClockPool == {<<0, 30>>, <<10, 0>>, <<12, 59>>, <<23, 59>>}

\* the date strings given to parse_datetime; a 12-hour time has an hour of 1..12
DateTexts ==
    {DateText(lay, sep, FALSE, "none", f1, f2,
              IF lay = "DMY2" THEN 25 ELSE 2025, 0, 0, 0, "") :
        lay \in {"DMY4", "DMY2", "YMD"}, sep \in {"/", "-"},
        f1 \in DayMonthPool, f2 \in DayMonthPool}
    \cup
    {DateText(lay, sep, comma, tk, f[1], f[2],
              IF lay = "DMY2" THEN 25 ELSE 2025, c[1], c[2], 0, "") :
        lay \in {"DMY4", "DMY2", "YMD"}, sep \in {"/", "-"}, comma \in BOOLEAN,
        tk \in {"HM", "HMS"}, f \in DayMonthPool \X {4, 5}, c \in ClockPool}
    \cup
    {DateText(lay, sep, comma, tk, f[1], f[2],
              IF lay = "DMY2" THEN 25 ELSE 2025, c[1], c[2], 0, pm) :
        lay \in {"DMY4", "DMY2", "YMD"}, sep \in {"/", "-"}, comma \in BOOLEAN,
        tk \in {"HMp", "HMSp"}, f \in DayMonthPool \X {4, 5},
        c \in {x \in ClockPool : x[1] \in 1..12}, pm \in {"AM", "PM"}}

TextPool == DateTexts \cup {NaN, Blank, Junk}

IdA == <<"2", "0", "2", "3", "1", "2", "3", "4">>

IdB == <<"2", "0", "2", "3", "5", "6", "7", "8">>

\* one leading zero only
IdL0 == <<"0", "1", "2", "3", "4", "5", "6", "7">>

\* starts with "00"
IdZ == <<"0", "0", "1", "2", "3", "4", "5", "6", "7">>

\* seven characters
IdS == <<"2", "0", "2", "3", "1", "2", "3">>

\* IdA with whitespace around it
IdAsp == <<" ">> \o IdA \o <<" ">>

\* seven characters and a trailing blank
IdSsp == IdS \o <<" ">>

\* 18/04/2025 23:59:00
Deadline1 == DT(2025, 4, 18, 23, 59, 0)

DeadlinePool == {Deadline1}

\* "17/04/2025 10:00"
T0 == DateText("DMY4", "/", FALSE, "HM", 17, 4, 2025, 10, 0, 0, "")

\* "18/04/2025 11:59:00 PM"
T1 == DateText("DMY4", "/", FALSE, "HMSp", 18, 4, 2025, 11, 59, 0, "PM")

\* "18-04-2025, 23:59:00"
T2 == DateText("DMY4", "-", TRUE, "HMS", 18, 4, 2025, 23, 59, 0, "")

\* "20/04/2025 00:30:00"
T3 == DateText("DMY4", "/", FALSE, "HMS", 20, 4, 2025, 0, 30, 0, "")

\* "20/04/2025 23:59:01"
T4 == DateText("DMY4", "/", FALSE, "HMS", 20, 4, 2025, 23, 59, 1, "")

\* "19/04/2025 23:59:00", an override deadline
X1 == DateText("DMY4", "/", FALSE, "HMS", 19, 4, 2025, 23, 59, 0, "")

\* "2025-04-21", an override deadline without a time of day
X2 == DateText("YMD", "-", FALSE, "none", 4, 21, 2025, 0, 0, 0, "")

ExtRowPool ==
    {ExtRow(id, x) : id \in {IdA, IdAsp, IdL0, IdZ, IdS, IdSsp, IdNaN},
                     x \in {NaN, Blank, Junk, X1, X2}}

\* the extension tables of a whole run
RunExtRowPool == {ExtRow(id, x) : id \in {IdA, IdAsp, IdZ}, x \in {NaN, Blank, Junk, X1}}

SubRowPool ==
    { SubRow(IdA, "Ann", T1), SubRow(IdAsp, "Bob", T2), SubRow(IdA, "NaN", T2),
      SubRow(IdA, "Ann", T3), SubRow(IdAsp, "NaN", T4), SubRow(IdA, "Bob", Junk),
      SubRow(IdA, "Ann", Blank), SubRow(IdA, "Bob", NaN),
      SubRow(IdB, "Bob", T3), SubRow(IdB, "NaN", T0),
      SubRow(IdZ, "Ann", T3), SubRow(IdS, "Bob", T4), SubRow(IdNaN, "Ann", T3) }

Tables(pool, n) == UNION {[1..m -> pool] : m \in 0..n}

----------------------------------------------------------------------------
(* The state machines *)

\* --- parse_datetime on one string
InitParse ==
    /\ pc = "parse"
    /\ date_str \in TextPool /\ parsed = None
    /\ hours1 = 0 /\ hours2 = 0 /\ has_sc = FALSE /\ pen1 = 0 /\ pen2 = 0
    /\ ext_df = <<>> /\ ext_col = FALSE
    /\ special_students = {} /\ special_deadlines = EmptyDict
    /\ submission_df = <<>> /\ name_col = FALSE /\ deadline = Deadline1
    /\ results = <<>> /\ raised = FALSE

ParseDatetime ==
    /\ pc = "parse"
    /\ parsed' = parse_datetime(date_str)
    /\ pc' = "parsed"
    /\ UNCHANGED <<date_str, hours1, hours2, has_sc, pen1, pen2, ext_df, ext_col,
                   special_students, special_deadlines, submission_df, name_col,
                   deadline, results, raised>>

SpecParse == InitParse /\ [][ParseDatetime]_vars

\* --- calculate_late_penalty on two latenesses
InitPenalty ==
    /\ pc = "penalty"
    /\ hours1 \in HoursPool /\ hours2 \in HoursPool /\ has_sc \in BOOLEAN
    /\ pen1 = 0 /\ pen2 = 0
    /\ date_str = NaN /\ parsed = None
    /\ ext_df = <<>> /\ ext_col = FALSE
    /\ special_students = {} /\ special_deadlines = EmptyDict
    /\ submission_df = <<>> /\ name_col = FALSE /\ deadline = Deadline1
    /\ results = <<>> /\ raised = FALSE

CalculatePenalty ==
    /\ pc = "penalty"
    /\ pen1' = calculate_late_penalty(hours1, has_sc)
    /\ pen2' = calculate_late_penalty(hours2, has_sc)
    /\ pc' = "penalty_done"
    /\ UNCHANGED <<date_str, parsed, hours1, hours2, has_sc, ext_df, ext_col,
                   special_students, special_deadlines, submission_df, name_col,
                   deadline, results, raised>>

SpecPenalty == InitPenalty /\ [][CalculatePenalty]_vars

\* --- process_extension_file on one extension table
InitExt ==
    /\ pc = "ext"
    /\ ext_df = <<>> /\ ext_col \in BOOLEAN
    /\ special_students = {} /\ special_deadlines = EmptyDict
    /\ date_str = NaN /\ parsed = None
    /\ hours1 = 0 /\ hours2 = 0 /\ has_sc = FALSE /\ pen1 = 0 /\ pen2 = 0
    /\ submission_df = <<>> /\ name_col = FALSE /\ deadline = Deadline1
    /\ results = <<>> /\ raised = FALSE

\* one more row of the extension table; without an 'Extension' column the
\* rows carry no override
ReadExtRow ==
    /\ pc = "ext"
    /\ Len(ext_df) < MaxExt
    /\ \E r \in ExtRowPool :
          /\ ext_col \/ r.ext = NaN
          /\ ext_df' = Append(ext_df, r)
    /\ UNCHANGED <<pc, date_str, parsed, hours1, hours2, has_sc, pen1, pen2, ext_col,
                   special_students, special_deadlines, submission_df, name_col,
                   deadline, results, raised>>

ProcessExtensionFile ==
    /\ pc = "ext"
    /\ special_students' = process_extension_file(ext_df, ext_col)[1]
    /\ special_deadlines' = process_extension_file(ext_df, ext_col)[2]
    /\ pc' = "ext_done"
    /\ UNCHANGED <<date_str, parsed, hours1, hours2, has_sc, pen1, pen2, ext_df, ext_col,
                   submission_df, name_col, deadline, results, raised>>

SpecExt == InitExt /\ [][ReadExtRow \/ ProcessExtensionFile]_vars

\* --- a whole run: the extension file (when one is uploaded), then process_data
Init ==
    /\ pc = "start"
    /\ deadline \in DeadlinePool /\ name_col \in BOOLEAN
    /\ submission_df = <<>>
    /\ special_students = {} /\ special_deadlines = EmptyDict
    /\ results = <<>> /\ raised = FALSE
    /\ ext_df = <<>> /\ ext_col = FALSE
    /\ date_str = NaN /\ parsed = None
    /\ hours1 = 0 /\ hours2 = 0 /\ has_sc = FALSE /\ pen1 = 0 /\ pen2 = 0

\* an extension file was uploaded: its table goes through process_extension_file
WithExtension ==
    /\ pc = "start"
    /\ \E col \in BOOLEAN :
       \E file \in Tables(RunExtRowPool, MaxExt) :
          /\ \A i \in 1..Len(file) : col \/ file[i].ext = NaN
          /\ special_students' = process_extension_file(file, col)[1]
          /\ special_deadlines' = process_extension_file(file, col)[2]
    /\ pc' = "rows"
    /\ UNCHANGED <<date_str, parsed, hours1, hours2, has_sc, pen1, pen2, ext_df, ext_col,
                   submission_df, name_col, deadline, results, raised>>

\* no extension file: the set and the dict stay empty
WithoutExtension ==
    /\ pc = "start"
    /\ pc' = "rows"
    /\ UNCHANGED <<date_str, parsed, hours1, hours2, has_sc, pen1, pen2, ext_df, ext_col,
                   special_students, special_deadlines, submission_df, name_col,
                   deadline, results, raised>>

\* one more row of the submission table; without a name column the rows
\* carry no name
ReadSubmissionRow ==
    /\ pc = "rows"
    /\ Len(submission_df) < MaxRows
    /\ \E r \in SubRowPool :
          /\ name_col \/ r.name = "NaN"
          /\ submission_df' = Append(submission_df, r)
    /\ UNCHANGED <<pc, date_str, parsed, hours1, hours2, has_sc, pen1, pen2, ext_df,
                   ext_col, special_students, special_deadlines, name_col, deadline,
                   results, raised>>

ProcessData ==
    /\ pc = "rows"
    /\ \E out \in process_data(submission_df, deadline, special_students,
                               special_deadlines, name_col) :
          /\ results' = out.results
          /\ raised' = out.raised
    /\ pc' = "done"
    /\ UNCHANGED <<date_str, parsed, hours1, hours2, has_sc, pen1, pen2, ext_df, ext_col,
                   special_students, special_deadlines, submission_df, name_col,
                   deadline>>

Next == WithExtension \/ WithoutExtension \/ ReadSubmissionRow \/ ProcessData

Spec == Init /\ [][Next]_vars

----------------------------------------------------------------------------
(* The tier table of the specification, section 4.2: <<upper bound in hours,
   percentage>>, each range inclusive at its upper bound *)

StandardTiers == <<<<48, 0>>, <<72, 15>>, <<96, 20>>, <<120, 25>>, <<144, 30>>, <<168, 35>>>>

SpecialTiers ==
    <<<<24, 5>>, <<48, 10>>, <<72, 15>>, <<96, 20>>, <<120, 25>>, <<144, 30>>, <<168, 35>>>>

RECURSIVE TierLookup(_, _, _)
TierLookup(secs, tiers, i) ==
    IF i > Len(tiers) THEN 100
    ELSE IF secs <= tiers[i][1] * 3600 THEN tiers[i][2]
    ELSE TierLookup(secs, tiers, i + 1)

TierTable(secs, special) ==
    IF secs <= 0 THEN 0
    ELSE TierLookup(secs, IF special THEN SpecialTiers ELSE StandardTiers, 1)

----------------------------------------------------------------------------
(* Claims about calculate_late_penalty (SpecPenalty) *)

\* C1: for every lateness and either flag, calculate_late_penalty returns the
\* value of the tier table: 0 at or below 0; standard 0 up to 48 h inclusive, then
\* 15..35 for the ranges ending at 72..168 h, 100 above; special 5..35 for the
\* ranges ending at 24..168 h, 100 above.
C1_TierTable ==
    pc = "penalty_done" => pen1 = TierTable(hours1, has_sc)

\* one second past 48 h on the standard schedule: 15
C1_Witness ==
    pc = "penalty_done" /\ ~has_sc /\ hours1 = 48 * 3600 + 1 /\ pen1 = 15

\* C2: the penalty is non-decreasing in the lateness for each schedule, the
\* branch at or below 0 included.
C2_Monotone ==
    (pc = "penalty_done" /\ hours1 <= hours2) => pen1 <= pen2

\* across the <= 0 branch on the special schedule: 0, then 5
C2_Witness ==
    pc = "penalty_done" /\ has_sc /\ hours1 = 0 /\ hours2 = 1 /\ pen1 = 0 /\ pen2 = 5

----------------------------------------------------------------------------
(* Claims about parse_datetime (SpecParse) *)

\* a numeric date with the year last whose first two fields could each be a
\* day or a month
Ambiguous(t) ==
    t.k = "date" /\ t.lay \in {"DMY4", "DMY2"} /\ t.f1 \in 1..12 /\ t.f2 \in 1..12

\* C8: every accepted date string whose first two fields could each be a day or
\* a month is read day-first: the day is the first field, the month the second,
\* whether an explicit format or the generic parser accepted it.
C8_DayFirst ==
    (pc = "parsed" /\ Ambiguous(date_str) /\ parsed.k = "dt")
        => (parsed.d = date_str.f1 /\ parsed.mo = date_str.f2)

----------------------------------------------------------------------------
(* Claims about process_extension_file (SpecExt) *)

\* the identifier is valid in the words of the specification
ValidId(id) == ~(Len(id) >= 2 /\ SubSeq(id, 1, 2) = <<"0", "0">>) /\ Len(id) >= 8

\* the trimmed identifier of a table cell
Trimmed(id) == strip(astype_str(id))

\* the override field is not empty and parses to a timestamp
OverrideParses(x) == x.k \notin {"NaN", "blank"} /\ parse_datetime(x).k = "dt"

\* C7: special_ids is exactly the set of trimmed valid identifiers of the table;
\* overrides has an entry for an identifier only if a row of it has a non-empty
\* override that parses; a row whose override is empty or unparseable adds no
\* entry while its identifier stays in special_ids.
C7_Registry ==
    pc = "ext_done" =>
        /\ special_students =
              {Trimmed(ext_df[i].id) : i \in {j \in 1..Len(ext_df) : ValidId(Trimmed(ext_df[j].id))}}
        /\ \A id \in DOMAIN special_deadlines :
              \E i \in 1..Len(ext_df) :
                  Trimmed(ext_df[i].id) = id /\ OverrideParses(ext_df[i].ext)
        /\ \A i \in 1..Len(ext_df) :
              (ValidId(Trimmed(ext_df[i].id))
                 /\ \A j \in 1..Len(ext_df) :
                        Trimmed(ext_df[j].id) = Trimmed(ext_df[i].id)
                            => ~OverrideParses(ext_df[j].ext))
                 => /\ Trimmed(ext_df[i].id) \in special_students
                    /\ Trimmed(ext_df[i].id) \notin DOMAIN special_deadlines

----------------------------------------------------------------------------
(* Claims about the result table (Spec) *)

\* the rows of the submission table that count for a student: identifier and
\* timestamp present, the timestamp parseable
Counts(r) == r.id # IdNaN /\ r.ts.k # "NaN" /\ parse_datetime(r.ts).k = "dt"

RowsOf(id) == {i \in 1..Len(submission_df) :
                  Counts(submission_df[i]) /\ Trimmed(submission_df[i].id) = id}

ExpectedIds ==
    {id \in {Trimmed(submission_df[i].id) : i \in 1..Len(submission_df)} :
        ValidId(id) /\ RowsOf(id) # {}}

Done == pc = "done" /\ ~raised

\* the parsed timestamp of the submission a result row reports
UsedTime(row) == parse_datetime(row.Submission_Time)

\* the deadline a result row reports
UsedDeadline(row) == parse_datetime(row.Deadline_Used)

\* the exact lateness of a result row, in seconds
ExactLate(row) ==
    IF Secs(UsedTime(row)) > Secs(UsedDeadline(row))
    THEN Secs(UsedTime(row)) - Secs(UsedDeadline(row)) ELSE 0

\* C3: the result holds exactly one row for each distinct trimmed identifier
\* that is valid and has a row with identifier, timestamp and a parseable
\* timestamp, no row for any other identifier, and no error is raised.
C3_OneRowPerStudent ==
    pc = "done" =>
        /\ ~raised
        /\ {results[i].Student_ID : i \in 1..Len(results)} = ExpectedIds
        /\ \A i, j \in 1..Len(results) :
              results[i].Student_ID = results[j].Student_ID => i = j

\* C4: the submission a result row reports and measures is the chronologically
\* latest parseable one of that student, whatever the order of the rows.
C4_LatestSubmission ==
    Done =>
        \A i \in 1..Len(results) :
            LET row == results[i]
            IN  /\ UsedTime(row).k = "dt"
                /\ \E j \in RowsOf(row.Student_ID) :
                       submission_df[j].ts = row.Submission_Time
                /\ \A j \in RowsOf(row.Student_ID) :
                       Secs(parse_datetime(submission_df[j].ts)) <= Secs(UsedTime(row))
                /\ row.Hours_Late = round2(ExactLate(row))

\* three attempts of one student, the latest in the middle of the table
C4_Witness ==
    /\ Done
    /\ Len(submission_df) = 3
    /\ submission_df[1].ts = T1 /\ submission_df[2].ts = T4 /\ submission_df[3].ts = T3
    /\ \A j \in 1..3 : Trimmed(submission_df[j].id) = IdA
    /\ Len(results) = 1
    /\ results[1].Submission_Time = T4

\* C5: Deadline_Used is the override when the identifier is a key of the
\* overrides and the global deadline otherwise; the lateness is
\* max(0, submission - Deadline_Used), never negative, and 0 with a 0% penalty
\* when the submission is at or before Deadline_Used.
C5_DeadlineAndClamp ==
    Done =>
        \A i \in 1..Len(results) :
            LET row == results[i]
                due == IF row.Student_ID \in DOMAIN special_deadlines
                       THEN special_deadlines[row.Student_ID] ELSE deadline
                diff == Secs(UsedTime(row)) - Secs(due)
            IN  /\ UsedDeadline(row) = due
                /\ row.Hours_Late >= 0
                /\ diff <= 0 => (row.Hours_Late = 0 /\ row.Late_Penalty = 0)
                /\ diff > 0 => row.Hours_Late = round2(diff)

\* a student with an override deadline who submitted before it, after the
\* global deadline
C5_Witness ==
    /\ Done
    /\ \E i \in 1..Len(results) :
          /\ results[i].Student_ID \in DOMAIN special_deadlines
          /\ results[i].Deadline_Used = X1
          /\ results[i].Submission_Time = T1
          /\ Secs(UsedTime(results[i])) <= Secs(parse_datetime(X1))
          /\ results[i].Hours_Late = 0 /\ results[i].Late_Penalty = 0
    /\ \E i \in 1..Len(results) :
          /\ results[i].Student_ID \notin DOMAIN special_deadlines
          /\ UsedDeadline(results[i]) = deadline
          /\ results[i].Hours_Late > 0

\* C6: Late_Penalty is the schedule's value at the exact lateness with
\* special = (identifier in special_ids), Special_Consideration is 'Yes' exactly
\* for those identifiers, and rounding Hours_Late never changes the tier: 48 h
\* and 1 s late without special consideration is 15% with Hours_Late 48.0.
C6_ExactTier ==
    Done =>
        \A i \in 1..Len(results) :
            LET row == results[i]
                special == row.Student_ID \in special_students
            IN  /\ row.Late_Penalty = TierTable(ExactLate(row), special)
                /\ (row.Special_Consideration = "Yes") <=> special
                /\ row.Special_Consideration \in {"Yes", "No"}
                /\ (~special /\ ExactLate(row) = 48 * 3600 + 1)
                      => (row.Late_Penalty = 15 /\ row.Hours_Late = 4800)

\* 48 h and 1 s after the global deadline, no special consideration
C6_Witness ==
    /\ Done
    /\ \E i \in 1..Len(results) :
          /\ results[i].Special_Consideration = "No"
          /\ ExactLate(results[i]) = 48 * 3600 + 1
          /\ results[i].Hours_Late = 4800
          /\ results[i].Late_Penalty = 15

\* the rows of a student with the latest parsed timestamp
Latest(id) ==
    {j \in RowsOf(id) :
        \A m \in RowsOf(id) :
            Secs(parse_datetime(submission_df[m].ts))
                <= Secs(parse_datetime(submission_df[j].ts))}

\* the last of them in table order
LastLatest(id) == CHOOSE j \in Latest(id) : \A m \in Latest(id) : m <= j

\* C9: with several rows of a student at the same latest timestamp, the record
\* kept is the whole row that comes last in the table among them: both
\* Submission_Time and Student_Name come from that row.
C9_LastTiedRow ==
    (Done /\ name_col) =>
        \A i \in 1..Len(results) :
            LET j == LastLatest(results[i].Student_ID)
            IN  Cardinality(Latest(results[i].Student_ID)) >= 2 =>
                    /\ results[i].Submission_Time = submission_df[j].ts
                    /\ results[i].Student_Name = submission_df[j].name

\* C10: the keys of overrides are a subset of special_ids; so every student
\* whose Deadline_Used is an override has Special_Consideration 'Yes' and the
\* special schedule: a positive lateness of at most 24 h after the override
\* deadline is 5%, never 0%.
C10_OverrideIsSpecial ==
    /\ DOMAIN special_deadlines \subseteq special_students
    /\ Done =>
          \A i \in 1..Len(results) :
              results[i].Student_ID \in DOMAIN special_deadlines =>
                  /\ results[i].Special_Consideration = "Yes"
                  /\ results[i].Late_Penalty = TierTable(ExactLate(results[i]), TRUE)
                  /\ (ExactLate(results[i]) > 0 /\ ExactLate(results[i]) <= 24 * 3600)
                        => results[i].Late_Penalty = 5

\* 31 minutes after the override deadline: 5%
C10_Witness ==
    /\ Done
    /\ \E i \in 1..Len(results) :
          /\ results[i].Student_ID \in DOMAIN special_deadlines
          /\ results[i].Deadline_Used = X1
          /\ results[i].Submission_Time = T3
          /\ ExactLate(results[i]) = 31 * 60
          /\ results[i].Late_Penalty = 5
          /\ results[i].Special_Consideration = "Yes"

====
